---- MODULE Spec2Model ----
(***************************************************************************)
(* IsouAISearchProvider.search (src/isou_search.py): one HTTP request whose *)
(* streamed response is read line by line; each "data:" line is decoded as *)
(* an envelope holding a payload, and the payload's image, answer and      *)
(* related fields are accumulated.  Python values are tagged records,      *)
(* Python str values are TLA+ strings, and JSON text is what json.dumps    *)
(* writes, so that decoding is a real inverse with a failure case.         *)
(***************************************************************************)
EXTENDS Integers, Sequences, FiniteSets, TLC

VARIABLES self, pc, images, answer, related, stdout, stream, echoOKs, fault,
          outcome, result

vars == <<self, pc, images, answer, related, stdout, stream, echoOKs, fault,
          outcome, result>>

(***************************************************************************)
(* Bounds                                                                  *)
(***************************************************************************)
\* the longest stream of lines the transport delivers before it must end
MaxLines == 3

(***************************************************************************)
(* Python values                                                           *)
(***************************************************************************)
PyNone == [t |-> "none"]

PyBool(b) == [t |-> "bool", b |-> b]

PyInt(n) == [t |-> "int", n |-> n]

PyStr(s) == [t |-> "str", s |-> s]

PyBytes(s) == [t |-> "bytes", s |-> s]

PyList(l) == [t |-> "list", l |-> l]

PyDict(d) == [t |-> "dict", d |-> d]

EmptyDict == PyDict(<<>>)

\* bool(v): None, False, 0, "", b"", [] and {} are falsy
Truthy(v) ==
  CASE v.t = "none" -> FALSE
    [] v.t = "bool" -> v.b
    [] v.t = "int" -> v.n # 0
    [] v.t = "str" -> v.s # ""
    [] v.t = "bytes" -> v.s # ""
    [] v.t = "list" -> v.l # <<>>
    [] v.t = "dict" -> DOMAIN v.d # {}

Digit(n) == SubSeq("0123456789", n + 1, n + 1)

RECURSIVE NatToStr(_)
NatToStr(n) == IF n < 10 THEN Digit(n) ELSE NatToStr(n \div 10) \o Digit(n % 10)

IntToStr(n) == IF n < 0 THEN "-" \o NatToStr(-n) ELSE NatToStr(n)

\* the order in which the keys of a dict are written out
KeyOrder ==
  <<"data", "image", "answer", "related", "id", "name", "source", "url",
    "img", "thumbnail", "snippet", "engine", "extra">>

RECURSIVE JoinRepr(_, _)
RECURSIVE MembersRepr(_, _, _)
RECURSIVE Repr(_)
\* repr(v): a str is quoted, everything else is written as str() writes it
Repr(v) ==
  CASE v.t = "none" -> "None"
    [] v.t = "bool" -> IF v.b THEN "True" ELSE "False"
    [] v.t = "int" -> IntToStr(v.n)
    [] v.t = "str" -> "'" \o v.s \o "'"
    [] v.t = "list" -> "[" \o JoinRepr(v.l, 1) \o "]"
    [] v.t = "bytes" -> "b'" \o v.s \o "'"
    [] v.t = "dict" -> "{" \o MembersRepr(v.d, 1, TRUE) \o "}"

JoinRepr(l, i) ==
  IF i > Len(l) THEN ""
  ELSE Repr(l[i]) \o (IF i < Len(l) THEN ", " ELSE "") \o JoinRepr(l, i + 1)

MembersRepr(d, i, first) ==
  IF i > Len(KeyOrder) THEN ""
  ELSE IF KeyOrder[i] \in DOMAIN d
       THEN (IF first THEN "" ELSE ", ")
            \o "'" \o KeyOrder[i] \o "': " \o Repr(d[KeyOrder[i]])
            \o MembersRepr(d, i + 1, FALSE)
       ELSE MembersRepr(d, i + 1, first)

\* str(v)
Str(v) == IF v.t = "str" THEN v.s ELSE Repr(v)

(***************************************************************************)
(* JSON text: json.dumps writes it, json.loads reads it back or fails      *)
(***************************************************************************)
RECURSIVE Escape(_, _)
\* the body of a JSON string literal: quotes and backslashes are escaped
Escape(s, i) ==
  IF i > Len(s) THEN ""
  ELSE LET c == SubSeq(s, i, i)
       IN  (IF c = "\"" \/ c = "\\" THEN "\\" \o c ELSE c) \o Escape(s, i + 1)

RECURSIVE Dumps(_)
RECURSIVE DumpsItems(_, _)
RECURSIVE DumpsMembers(_, _, _)
Dumps(v) ==
  CASE v.t = "none" -> "null"
    [] v.t = "bool" -> IF v.b THEN "true" ELSE "false"
    [] v.t = "int" -> IntToStr(v.n)
    [] v.t = "str" -> "\"" \o Escape(v.s, 1) \o "\""
    [] v.t = "list" -> "[" \o DumpsItems(v.l, 1) \o "]"
    [] v.t = "dict" -> "{" \o DumpsMembers(v.d, 1, TRUE) \o "}"

DumpsItems(l, i) ==
  IF i > Len(l) THEN ""
  ELSE Dumps(l[i]) \o (IF i < Len(l) THEN ", " ELSE "") \o DumpsItems(l, i + 1)

DumpsMembers(d, i, first) ==
  IF i > Len(KeyOrder) THEN ""
  ELSE IF KeyOrder[i] \in DOMAIN d
       THEN (IF first THEN "" ELSE ", ")
            \o "\"" \o KeyOrder[i] \o "\": " \o Dumps(d[KeyOrder[i]])
            \o DumpsMembers(d, i + 1, FALSE)
       ELSE DumpsMembers(d, i + 1, first)

(***************************************************************************)
(* The inputs: payloads, envelopes and lines the upstream may send         *)
(***************************************************************************)
\* an image with every field it carries known, one of them null
ImgNull == PyDict("id" :> PyStr("1") @@ "source" :> PyNone)

\* an image whose values are not strings: a number, a zero, a false, a list
ImgTyped ==
  PyDict("id" :> PyInt(27) @@ "name" :> PyInt(0) @@ "url" :> PyBool(FALSE)
         @@ "img" :> PyBool(TRUE) @@ "snippet" :> PyList(<<PyInt(1), PyStr("a")>>))

\* an image with a key that is no field of ImageResult
ImgExtra == PyDict("id" :> PyStr("3") @@ "extra" :> PyStr("z"))

PNull == PyDict("image" :> ImgNull @@ "answer" :> PyNone)

PTyped == PyDict("image" :> ImgTyped)

PExtra == PyDict("image" :> ImgExtra @@ "answer" :> PyStr("x") @@ "related" :> PyStr("r"))

PAll ==
  PyDict("image" :> PyDict("id" :> PyStr("2")) @@ "answer" :> PyStr(" AQI")
         @@ "related" :> PyStr("r"))

PDelhi == PyDict("answer" :> PyStr("Delhi"))

PZero == PyDict("answer" :> PyInt(0) @@ "related" :> PyInt(0))

\* payloads that are a JSON object
ObjectPayloads ==
  { PNull, PTyped, PExtra, PAll, PDelhi, PZero,
    PyDict("image" :> PyStr("none")),
    PyDict("answer" :> PyBool(FALSE)),
    PyDict("answer" :> PyStr("") @@ "related" :> PyStr("")),
    PyDict("related" :> PyStr("q")),
    EmptyDict }

\* payloads that are no JSON object
ShapelessPayloads == { PyList(<<PyStr("image")>>), PyStr("image"), PyInt(5), PyNone }

Payloads == ObjectPayloads \cup ShapelessPayloads

\* {"data": <object>}
EnvObj(p) == PyDict("data" :> p)

\* {"data": "<the object, JSON-encoded>"}
EnvStr(p) == PyDict("data" :> PyStr(Dumps(p)))

Envelopes ==
  {EnvObj(p) : p \in Payloads} \cup {EnvStr(p) : p \in Payloads}
    \cup {EmptyDict, PyList(<<>>), EnvObj(PyStr("{oops"))}

DataLine(env) == PyStr("data:" \o Dumps(env))

\* what one read of the response body may yield
Lines ==
  { PyStr(""),
    PyStr("event: message"),
    PyBytes("data:{}"),
    PyStr("data:{oops"),
    DataLine(PyList(<<>>)),
    DataLine(EnvObj(PyStr("{oops"))),
    DataLine(EnvObj(PyList(<<PyStr("image")>>))),
    DataLine(EnvObj(PNull)),
    DataLine(EnvStr(PTyped)),
    DataLine(EnvObj(PExtra)),
    DataLine(EnvObj(PAll)),
    DataLine(EnvObj(PDelhi)),
    DataLine(EnvStr(PDelhi)),
    DataLine(EnvObj(PZero)) }

\* every value whose JSON text occurs in the inputs
JsonUniverse == Envelopes \cup Payloads

\* the JSON texts that decode, each with the value it encodes
JsonText == [v \in JsonUniverse |-> Dumps(v)]

JsonValue ==
  [s \in {JsonText[v] : v \in JsonUniverse} |->
     CHOOSE v \in JsonUniverse : JsonText[v] = s]

\* json.loads(s): the value s encodes, or JSONDecodeError
JsonLoads(s) ==
  IF s \in DOMAIN JsonValue THEN [exc |-> "none", v |-> JsonValue[s]]
  ELSE [exc |-> "JSONDecodeError", v |-> PyNone]

(***************************************************************************)
(* Exceptions: a class is its name; a handler catches a class and its      *)
(* subclasses                                                              *)
(***************************************************************************)
Base ==
  [ ConnectionError |-> "RequestException", Timeout |-> "RequestException",
    ChunkedEncodingError |-> "RequestException", RequestException |-> "OSError",
    OSError |-> "Exception", JSONDecodeError |-> "ValueError",
    UnicodeEncodeError |-> "ValueError", ValueError |-> "Exception",
    TypeError |-> "Exception", AttributeError |-> "Exception",
    KeyError |-> "Exception", Exception |-> "BaseException" ]

RECURSIVE IsInstance(_, _)
IsInstance(e, cls) ==
  \/ e = cls
  \/ e \in DOMAIN Base /\ IsInstance(Base[e], cls)

\* what requests.post may raise (ValueError: a timeout that is no number),
\* and what reading the body may raise
PostErrors == {"ConnectionError", "Timeout", "ValueError"}

ReadErrors == {"ChunkedEncodingError"}

\* print to a console that cannot take the text
EchoError == "UnicodeEncodeError"

\* the two except clauses of search, matched in the opposite order
Caught_ExceptionFirst(e) ==
  IF IsInstance(e, "Exception") THEN "ResponseParsingError"
  ELSE IF IsInstance(e, "RequestException") THEN "NetworkError"
  ELSE e

\* only the first except clause
Caught_OnlyRequest(e) ==
  IF IsInstance(e, "RequestException") THEN "NetworkError" ELSE e

\* the error that leaves search when e is raised inside its try block
Caught(e) ==
  IF IsInstance(e, "RequestException") THEN "NetworkError"
  ELSE IF IsInstance(e, "Exception") THEN "ResponseParsingError"
  ELSE e

(***************************************************************************)
(* The records                                                             *)
(***************************************************************************)
ImageFields ==
  {"id", "name", "source", "url", "img", "thumbnail", "snippet", "engine"}

\* the constructor takes any keyword and drops those that are no field
ImageResult_IgnoreUnknown(kwargs) ==
  [ exc |-> "none",
    v |-> [f \in ImageFields |-> IF f \in DOMAIN kwargs THEN kwargs[f] ELSE PyStr("")] ]

\* ImageResult(**kwargs): a keyword that is no field is a TypeError
ImageResult(kwargs) ==
  IF ~(DOMAIN kwargs \subseteq ImageFields)
  THEN [exc |-> "TypeError", v |-> <<>>]
  ELSE [ exc |-> "none",
         v |-> [f \in ImageFields |->
                  IF f \in DOMAIN kwargs THEN kwargs[f] ELSE PyStr("")] ]

SearchResult(im, an, re) == [images |-> im, answer |-> an, related |-> re]

Enums == {"SIMPLE", "DEEP", "GENERAL", "SCIENCE"}

\* mode.value / category.value: a member of the enumeration has one
EnumValue(m) ==
  IF m \in Enums THEN [exc |-> "none"] ELSE [exc |-> "AttributeError"]

\* _prepare_request_payload: reads mode.value and category.value
PrepareRequestPayload(cfg) ==
  IF EnumValue(cfg.mode).exc # "none" THEN EnumValue(cfg.mode)
  ELSE EnumValue(cfg.category)

(***************************************************************************)
(* The body of the loop                                                    *)
(***************************************************************************)
Ok(st) == [exc |-> "none", st |-> st]

Raise(e, st) == [exc |-> e, st |-> st]

\* value.startswith(prefix), prefix a str
StartsWith(value, prefix) ==
  IF value.t # "str" THEN [exc |-> "TypeError", b |-> FALSE]
  ELSE [exc |-> "none", b |-> /\ Len(value.s) >= Len(prefix)
                             /\ SubSeq(value.s, 1, Len(prefix)) = prefix]

\* key in data
In(key, data) ==
  CASE data.t = "dict" -> [exc |-> "none", b |-> key \in DOMAIN data.d]
    [] data.t = "list" ->
         [exc |-> "none", b |-> \E i \in 1..Len(data.l) : data.l[i] = PyStr(key)]
    [] data.t = "str" ->
         [exc |-> "none",
          b |-> \E i \in 1..(Len(data.s) - Len(key) + 1) :
                  SubSeq(data.s, i, i + Len(key) - 1) = key]
    [] OTHER -> [exc |-> "TypeError", b |-> FALSE]

\* data[key], key a str
GetItem(data, key) ==
  IF data.t # "dict" THEN [exc |-> "TypeError", v |-> PyNone]
  ELSE IF key \notin DOMAIN data.d THEN [exc |-> "KeyError", v |-> PyNone]
  ELSE [exc |-> "none", v |-> data.d[key]]

\* data.get(key, default)
Get(data, key, default) ==
  IF data.t # "dict" THEN [exc |-> "AttributeError", v |-> PyNone]
  ELSE [exc |-> "none", v |-> IF key \in DOMAIN data.d THEN data.d[key] ELSE default]

\* json_str = value[5:]; parsed_json = json.loads(json_str);
\* data_str = parsed_json.get('data', '{}')
EnvelopeData(parsed_json) ==
  IF parsed_json.exc # "none" THEN parsed_json
  ELSE Get(parsed_json.v, "data", PyStr("{}"))

ParseEnvelope(value) == EnvelopeData(JsonLoads(SubSeq(value.s, 6, Len(value.s))))

\* the data field is used as it is, never decoded
DecodeData_NoParse(data_str) == [exc |-> "none", v |-> data_str]

\* data = json.loads(data_str) if isinstance(data_str, str) else data_str
DecodeData(data_str) ==
  IF data_str.t = "str" THEN JsonLoads(data_str.s)
  ELSE [exc |-> "none", v |-> data_str]

\* v or '' with no str() around it
Coerce_NoStr(v) == IF Truthy(v) THEN v ELSE PyStr("")

\* str(v or '')
Coerce(v) == PyStr(Str(IF Truthy(v) THEN v ELSE PyStr("")))

\* images.insert(0, img)
AppendImage_Front(imgs, img) == <<img>> \o imgs

\* images.append(img)
AppendImage(imgs, img) == Append(imgs, img)

\* if 'image' in data: ... images.append(ImageResult(**{...}))
ProcessImages(st, data) ==
  LET has == In("image", data)
  IN  IF has.exc # "none" THEN Raise(has.exc, st)
      ELSE IF ~has.b THEN Ok(st)
      ELSE LET image_data == GetItem(data, "image")
           IN  IF image_data.exc # "none" THEN Raise(image_data.exc, st)
               ELSE IF image_data.v.t # "dict" THEN Ok(st)
               ELSE LET d == image_data.v.d
                        img == ImageResult([k \in DOMAIN d |-> Coerce(d[k])])
                    IN  IF img.exc # "none" THEN Raise(img.exc, st)
                        ELSE Ok([st EXCEPT !.images = AppendImage(@, img.v)])

\* if data.get('answer') is not None: answer += str(data['answer'])
ProcessAnswer(st, data) ==
  LET a == Get(data, "answer", PyNone)
  IN  IF a.exc # "none" THEN Raise(a.exc, st)
      ELSE IF a.v = PyNone THEN Ok(st)
      ELSE Ok([st EXCEPT !.answer = @ \o Str(GetItem(data, "answer").v)])

\* if self._stream and 'answer' in data:
\*     if data['answer'] is not None: print(data['answer'], end="", flush=True)
ProcessEcho(st, data, echo, echoOK) ==
  IF ~echo THEN Ok(st)
  ELSE LET has == In("answer", data)
       IN  IF has.exc # "none" THEN Raise(has.exc, st)
           ELSE IF ~has.b THEN Ok(st)
           ELSE LET a == GetItem(data, "answer")
                IN  IF a.exc # "none" THEN Raise(a.exc, st)
                    ELSE IF a.v = PyNone THEN Ok(st)
                    ELSE IF ~echoOK THEN Raise(EchoError, st)
                    ELSE Ok([st EXCEPT !.stdout = @ \o Str(a.v)])

\* if data.get('related'): related += str(data['related'])
ProcessRelated(st, data) ==
  LET r == Get(data, "related", PyNone)
  IN  IF r.exc # "none" THEN Raise(r.exc, st)
      ELSE IF ~Truthy(r.v) THEN Ok(st)
      ELSE Ok([st EXCEPT !.related = @ \o Str(GetItem(data, "related").v)])

\* the statements that read the decoded payload, in the order of the code:
\* each runs on the state the one before left, unless that one raised
AfterEcho(r, data) ==
  IF r.exc # "none" THEN r ELSE ProcessRelated(r.st, data)

AfterAnswer(r, data, echo, echoOK) ==
  IF r.exc # "none" THEN r
  ELSE AfterEcho(ProcessEcho(r.st, data, echo, echoOK), data)

AfterImages(r, data, echo, echoOK) ==
  IF r.exc # "none" THEN r
  ELSE AfterAnswer(ProcessAnswer(r.st, data), data, echo, echoOK)

Accumulate(st, data, echo, echoOK) ==
  AfterImages(ProcessImages(st, data), data, echo, echoOK)

WithData(st, data, echo, echoOK) ==
  IF data.exc # "none" THEN Raise(data.exc, st)
  ELSE Accumulate(st, data.v, echo, echoOK)

WithDataStr(st, data_str, echo, echoOK) ==
  IF data_str.exc # "none" THEN Raise(data_str.exc, st)
  ELSE WithData(st, DecodeData(data_str.v), echo, echoOK)

\* the statements inside the inner try, up to the first that raises
TryBody(st, value, echo, echoOK) ==
  WithDataStr(st, ParseEnvelope(value), echo, echoOK)

\* no inner handler: what the body raises leaves the loop
ExceptContinue_Reraise(r) == r

\* except: continue
ExceptContinue(r) == Ok(r.st)

\* one iteration: the test of the line, then the guarded body
LoopBody(st, value, echo, echoOK) ==
  IF ~Truthy(value) THEN Ok(st)
  ELSE IF StartsWith(value, "data:").exc # "none"
       THEN Raise(StartsWith(value, "data:").exc, st)
  ELSE IF ~StartsWith(value, "data:").b THEN Ok(st)
  ELSE ExceptContinue(TryBody(st, value, echo, echoOK))

(***************************************************************************)
(* The call                                                                *)
(***************************************************************************)
EmptySt == [images |-> <<>>, answer |-> "", related |-> "", stdout |-> ""]

Locals == [images |-> images, answer |-> answer, related |-> related,
           stdout |-> stdout]

RECURSIVE RunFrom(_, _, _, _, _)
\* the for loop from line i on: it ends at the first iteration that raises
RunFrom(st, lines, oks, i, echo) ==
  IF i > Len(lines) THEN Ok(st)
  ELSE IF LoopBody(st, lines[i], echo, oks[i]).exc # "none"
       THEN LoopBody(st, lines[i], echo, oks[i])
  ELSE RunFrom(LoopBody(st, lines[i], echo, oks[i]).st, lines, oks, i + 1, echo)

\* the for loop over a whole stream, from images = [], answer = "", related = ""
Run(lines, oks, echo) == RunFrom(EmptySt, lines, oks, 1, echo)

\* whether the body reaches its print call on this line
ReachesEcho(value, echo) ==
  /\ Truthy(value)
  /\ StartsWith(value, "data:").b
  /\ TryBody(EmptySt, value, echo, FALSE).exc = EchoError

\* the provider objects a caller may construct
Configs ==
  { [mode |-> "SIMPLE", category |-> "SCIENCE", stream |-> TRUE],
    [mode |-> "DEEP", category |-> "GENERAL", stream |-> FALSE],
    [mode |-> "simple", category |-> "SCIENCE", stream |-> TRUE],
    [mode |-> "SIMPLE", category |-> "science", stream |-> FALSE] }

NoResult == PyNone

Init ==
  /\ self \in Configs
  /\ pc = "start"
  /\ images = <<>>
  /\ answer = ""
  /\ related = ""
  /\ stdout = ""
  /\ stream = <<>>
  /\ echoOKs = <<>>
  /\ fault = "none"
  /\ outcome = "none"
  /\ result = NoResult

\* the call ends with an error
Fail(e) ==
  /\ outcome' = Caught(e)
  /\ pc' = "done"
  /\ result' = NoResult

\* building the request body raises
PrepareFails ==
  /\ pc = "start"
  /\ PrepareRequestPayload(self).exc # "none"
  /\ fault' = PrepareRequestPayload(self).exc
  /\ Fail(PrepareRequestPayload(self).exc)
  /\ UNCHANGED <<self, images, answer, related, stdout, stream, echoOKs>>

\* requests.post raises
PostFails ==
  /\ pc = "start"
  /\ PrepareRequestPayload(self).exc = "none"
  /\ \E e \in PostErrors :
       /\ fault' = e
       /\ Fail(e)
  /\ UNCHANGED <<self, images, answer, related, stdout, stream, echoOKs>>

\* requests.post returns; images = [], answer = "", related = ""
PostOK ==
  /\ pc = "start"
  /\ PrepareRequestPayload(self).exc = "none"
  /\ pc' = "loop"
  /\ images' = <<>>
  /\ answer' = ""
  /\ related' = ""
  /\ UNCHANGED <<self, stdout, stream, echoOKs, fault, outcome, result>>

\* the locals after an iteration, and the error if it raised
Iterated(r) ==
  /\ images' = r.st.images
  /\ answer' = r.st.answer
  /\ related' = r.st.related
  /\ stdout' = r.st.stdout
  /\ IF r.exc = "none"
     THEN UNCHANGED <<pc, outcome, result>>
     ELSE Fail(r.exc)

\* iter_lines yields a line and the loop body runs on it
NextLine ==
  /\ pc = "loop"
  /\ Len(stream) < MaxLines
  /\ \E value \in Lines :
       \E echoOK \in (IF ReachesEcho(value, self.stream) THEN BOOLEAN ELSE {TRUE}) :
         /\ stream' = Append(stream, value)
         /\ echoOKs' = Append(echoOKs, echoOK)
         /\ Iterated(LoopBody(Locals, value, self.stream, echoOK))
  /\ UNCHANGED <<self, fault>>

\* iter_lines raises
ReadFails ==
  /\ pc = "loop"
  /\ \E e \in ReadErrors :
       /\ fault' = e
       /\ Fail(e)
  /\ UNCHANGED <<self, images, answer, related, stdout, stream, echoOKs>>

\* the body is exhausted: return SearchResult(images=..., answer=..., related=...)
Return ==
  /\ pc = "loop"
  /\ result' = SearchResult(images, answer, related)
  /\ outcome' = "returned"
  /\ pc' = "done"
  /\ UNCHANGED <<self, images, answer, related, stdout, stream, echoOKs, fault>>

Next == PrepareFails \/ PostFails \/ PostOK \/ NextLine \/ ReadFails \/ Return

Spec == Init /\ [][Next]_vars

(***************************************************************************)
(* Vocabulary of the properties                                            *)
(***************************************************************************)
IsPrefix(a, b) == Len(a) <= Len(b) /\ SubSeq(b, 1, Len(a)) = a

RECURSIVE Ascending(_)
\* the members of a finite set of numbers, in increasing order
Ascending(S) ==
  IF S = {} THEN <<>>
  ELSE LET m == CHOOSE x \in S : \A y \in S : x <= y
       IN  <<m>> \o Ascending(S \ {m})

Pick(seq, idx) == [k \in 1..Len(idx) |-> seq[idx[k]]]

\* a line the loop hands to the guarded body
IsDataLine(value) == value.t = "str" /\ StartsWith(value, "data:").b

\* the payload a data line carries, or the error of decoding it
PayloadOf(value) ==
  IF ParseEnvelope(value).exc # "none" THEN ParseEnvelope(value)
  ELSE DecodeData(ParseEnvelope(value).v)

\* the line is malformed: its envelope, its payload or their shapes make the
\* body raise whatever the console does
Malformed(value) ==
  IsDataLine(value) /\ TryBody(EmptySt, value, FALSE, TRUE).exc # "none"

\* the i-th line of the stream made the body raise, at any statement
LineFailed(i) ==
  /\ IsDataLine(stream[i])
  /\ TryBody(EmptySt, stream[i], self.stream, echoOKs[i]).exc # "none"

\* the payload of the line is an object whose image is an object with a key
\* that is no field of ImageResult
HasUnknownImageKey(value) ==
  /\ IsDataLine(value)
  /\ PayloadOf(value).exc = "none"
  /\ PayloadOf(value).v.t = "dict"
  /\ "image" \in DOMAIN PayloadOf(value).v.d
  /\ PayloadOf(value).v.d["image"].t = "dict"
  /\ ~(DOMAIN PayloadOf(value).v.d["image"].d \subseteq ImageFields)

\* the string a payload value becomes in an ImageResult field
FieldText(v) == IF Truthy(v) THEN Str(v) ELSE ""

\* the record of an image object with its known keys mapped, its unknown
\* keys ignored and its absent fields empty
ExpectedImage(d) ==
  [f \in ImageFields |-> PyStr(IF f \in DOMAIN d THEN FieldText(d[f]) ELSE "")]

\* the answer fragment of a payload: the string form of a present, non-null answer
Fragment(p) ==
  IF p.t = "dict" /\ "answer" \in DOMAIN p.d /\ p.d["answer"] # PyNone
  THEN Str(p.d["answer"])
  ELSE ""

RECURSIVE Fragments(_)
\* the fragments of the lines 1..n that were processed without an error
Fragments(n) ==
  IF n = 0 THEN ""
  ELSE Fragments(n - 1)
       \o (IF IsDataLine(stream[n]) /\ ~LineFailed(n)
           THEN Fragment(PayloadOf(stream[n]).v) ELSE "")

RECURSIVE ImagesOfLines(_)
\* the images each of the lines 1..n yields when processed alone, joined in
\* the order of the lines
ImagesOfLines(n) ==
  IF n = 0 THEN <<>>
  ELSE ImagesOfLines(n - 1)
       \o LoopBody(EmptySt, stream[n], self.stream, echoOKs[n]).st.images

\* the two lines that carry a payload object
StrLine == [p \in ObjectPayloads |-> DataLine(EnvStr(p))]

ObjLine == [p \in ObjectPayloads |-> DataLine(EnvObj(p))]

Started == pc # "start" /\ fault = "none"

TextOnly == \A i \in 1..Len(stream) : stream[i].t = "str"

(***************************************************************************)
(* Properties                                                              *)
(***************************************************************************)
\* C1: over a stream of text lines with no transport failure, a malformed
\* line (invalid envelope JSON, invalid inner JSON, envelope or payload of
\* the wrong shape) raises nothing and does not stop the loop, and the
\* accumulated and the returned result equal those of the same stream with
\* the malformed lines and the lines not starting with "data:" removed.
C1_MalformedLinesAreSkipped ==
  (Started /\ TextOnly) =>
    /\ outcome \in {"none", "returned"}
    /\ LET keep == Ascending({i \in 1..Len(stream) :
                                 IsDataLine(stream[i]) /\ ~Malformed(stream[i])})
       IN  Run(Pick(stream, keep), Pick(echoOKs, keep), self.stream) = Ok(Locals)
    /\ outcome = "returned" => result = SearchResult(images, answer, related)

C1_Witness ==
  /\ outcome = "returned"
  /\ stream = <<PyStr("data:{oops"), DataLine(EnvObj(PyStr("{oops"))),
                DataLine(EnvObj(PNull))>>
  /\ Len(result.images) = 1

\* C2: every processed image event whose image object has a key outside the
\* eight ImageResult fields has appended one ImageResult, with the unknown
\* key ignored, the known keys mapped and the absent fields empty.
C2_UnknownKeyIgnored ==
  \A i \in 1..Len(stream) :
    HasUnknownImageKey(stream[i]) =>
      \E j \in 1..Len(images) :
        images[j] = ExpectedImage(PayloadOf(stream[i]).v.d["image"].d)

\* C3: a call that has ended has returned a result, raised NetworkError or
\* raised ResponseParsingError, and it holds a result exactly when it returned.
C3_ThreeOutcomes ==
  pc = "done" =>
    /\ outcome \in {"returned", "NetworkError", "ResponseParsingError"}
    /\ (outcome = "returned") <=> (result # NoResult)

C3_Witness ==
  /\ pc = "done"
  /\ outcome = "ResponseParsingError"
  /\ fault = "none"
  /\ Len(stream) = 2
  /\ stream[2].t = "bytes"

\* C4: a transport failure, on the request or while a later line is read,
\* ends the call with NetworkError, never ResponseParsingError, and no
\* result is returned whatever was accumulated.
C4_TransportFailureIsNetworkError ==
  (pc = "done" /\ IsInstance(fault, "RequestException")) =>
    /\ outcome = "NetworkError"
    /\ result = NoResult

C4_Witness ==
  /\ pc = "done"
  /\ fault \in ReadErrors
  /\ outcome = "NetworkError"
  /\ result = NoResult
  /\ Len(images) = 1
  /\ answer = " AQI"
  /\ related = "r"

\* C5: a line any step of which fails (decoding, field access, ImageResult
\* construction or the console echo) contributes nothing: images, answer and
\* related are those of the stream without the lines that failed.
C5_AllOrNothing ==
  LET keep == Ascending({i \in 1..Len(stream) : ~LineFailed(i)})
      r == Run(Pick(stream, keep), Pick(echoOKs, keep), self.stream)
  IN  /\ images = r.st.images
      /\ answer = r.st.answer
      /\ related = r.st.related

\* C6: images only grows at its end, and it lists the images of the accepted
\* image events in the order of their lines, whatever lines lie between; the
\* returned images are that sequence.
C6_ImagesInArrivalOrder ==
  /\ [][IsPrefix(images, images')]_vars
  /\ [](/\ images = ImagesOfLines(Len(stream))
        /\ outcome = "returned" => result.images = images)

C6_Witness ==
  /\ outcome = "returned"
  /\ stream = <<DataLine(EnvObj(PAll)), PyStr("event: message"), DataLine(EnvObj(PNull))>>
  /\ Len(result.images) = 2
  /\ result.images[1]["id"] = PyStr("2")
  /\ result.images[2]["id"] = PyStr("1")

\* C7: the returned answer is the concatenation, in stream order and with no
\* separator, of the string forms of the present and non-null answers of the
\* payloads that were processed without an error.
C7_AnswerOfProcessedPayloads ==
  outcome = "returned" => result.answer = Fragments(Len(stream))

\* C8: for every payload object, the line that carries it as a JSON-encoded
\* string and the line that carries it as an object change images, answer,
\* related and the console in the same way, from every state of the loop.
C8_BothShapesAgree ==
  pc = "loop" =>
    \A p \in ObjectPayloads : \A ok \in BOOLEAN :
      LoopBody(Locals, StrLine[p], self.stream, ok)
        = LoopBody(Locals, ObjLine[p], self.stream, ok)

C8_Witness ==
  /\ pc = "loop"
  /\ stream = <<DataLine(EnvStr(PDelhi)), DataLine(EnvObj(PDelhi))>>
  /\ answer = "DelhiDelhi"

\* C9: with echo set, after every processed line the text written to the
\* console equals the answer accumulated so far; with echo not set nothing
\* is written.
C9_EchoFollowsAnswer ==
  /\ self.stream => stdout = answer
  /\ ~self.stream => stdout = ""

\* C10: every field of every ImageResult in images, and in the returned
\* result, is a str: empty for a null or otherwise falsy value and for an
\* absent field, the string form of the value otherwise.
C10_FieldsAreStrings ==
  /\ \A j \in 1..Len(images) : \A f \in ImageFields : images[j][f].t = "str"
  /\ LET keep == Ascending({i \in 1..Len(stream) :
                       LoopBody(EmptySt, stream[i], FALSE, TRUE).st.images # <<>>})
     IN  /\ Len(images) = Len(keep)
         /\ \A j \in 1..Len(keep) :
              images[j] = ExpectedImage(PayloadOf(stream[keep[j]]).v.d["image"].d)
  /\ outcome = "returned" => result.images = images

C10_Witness ==
  /\ outcome = "returned"
  /\ stream = <<DataLine(EnvObj(PNull)), DataLine(EnvStr(PTyped))>>
  /\ result.images[1]["source"] = PyStr("")
  /\ result.images[1]["name"] = PyStr("")
  /\ result.images[2]["id"] = PyStr("27")
  /\ result.images[2]["url"] = PyStr("")
  /\ result.images[2]["img"] = PyStr("True")
  /\ result.images[2]["snippet"] = PyStr("[1, 'a']")

(***************************************************************************)
(* What holds of the answer and of the console while no echo raises        *)
(***************************************************************************)
EchoNeverRaised == \A i \in 1..Len(echoOKs) : echoOKs[i]

AnswerWhenEchoWorks ==
  (EchoNeverRaised /\ outcome = "returned") => result.answer = Fragments(Len(stream))

EchoWhenEchoWorks ==
  EchoNeverRaised => (stdout = IF self.stream THEN answer ELSE "")

LineWhenEchoWorks ==
  EchoNeverRaised => C5_AllOrNothing

====
